---- MODULE Spec2Model ----
(***************************************************************************)
(* Model of the Lori assistant: the path sandbox of assistant_cli/tools.py *)
(* (_resolve_readable_path, _resolve_write_path, the fs.* tools and        *)
(* call_tool) and the agent loop of assistant_cli/agent.py (Agent.run with *)
(* its heuristic shortcuts, the nudge/retry protocol and the confirmation  *)
(* handshake).                                                             *)
(*                                                                         *)
(* Paths.  A resolved path is a sequence of directory names ("/" is <<>>). *)
(* A raw path, as a caller or the language model writes it, is absolute or *)
(* relative and may contain "..".  Symbolic links are not modelled.        *)
(***************************************************************************)
EXTENDS Integers, Sequences, FiniteSets, TLC

\* ------------------------------------------------------------------ bounds
MaxDepth == 2       \* depth of the directories a configuration may name
MaxSegs == 2        \* number of segments of a raw path
MaxRuns == 2        \* runs of Agent.run on one Agent instance
MaxKeep == 3        \* turns of self.messages kept after the system turn
MaxRunsLive == 1    \* runs of Agent.run followed to their return (SpecLive)

Names == {"a", "b"}
Segs == Names \cup {".."}

SeqsUpTo(S, n) == UNION {[1..k -> S] : k \in 0..n}

AbsPaths == SeqsUpTo(Names, MaxDepth)
\* Absolute raw paths are written without "..", relative ones with any segments.
RawPaths ==
    [abs : {TRUE}, segs : SeqsUpTo(Names, MaxSegs)]
       \cup [abs : {FALSE}, segs : SeqsUpTo(Segs, MaxSegs)]

\* The value of a missing path (result.get("path") is None).
NoPath == [abs |-> FALSE, segs |-> <<>>]

VARIABLES
    ASSISTANT_ROOT,            \* config.py: root of all fs operations
    ASSISTANT_DENYLIST,        \* config.py: set of denied directories
    ASSISTANT_READONLY_DIRS,   \* config.py: extra readable directories
    ASSISTANT_GLOBAL_READ,     \* config.py: admin toggle
    ASSISTANT_GLOBAL_WRITE,    \* config.py: admin toggle
    cwd,                       \* working directory of the process
    sb,                        \* last sandbox operation and its outcome
    disp,                      \* last direct call of call_tool and its outcome
    stream,                    \* a streamed run: the generator and its caller
    engine,                    \* the heuristic engine on its own: rules and calls
    gate,                      \* one tool call through the confirmation handshake
    fetch,                     \* one call of web.get_many: its futures and pages
    pc,                        \* position of Agent.run: idle, model, confirm
    messages,                  \* self.messages: system turn + most recent turns
    elided,                    \* older turns of self.messages are left out
    approved,                  \* self._approved_paths
    expecting_tools,           \* local of run
    tool_success,              \* local of run
    retries,                   \* local of run
    round,                     \* iterations of "for _ in range(12)" begun
    model_response,            \* full_response_content of this round
    tool_call,                 \* tool_call of this round
    result,                    \* result of the tool call
    dispatched,                \* calls of call_tool made for this tool_call
    asks,                      \* calls of input() made for this tool_call
    ev,                        \* what the loop did last in this round
    requests,                  \* calls of self.step() in this run
    validSeen,                 \* the model emitted a valid tool call this run
    ret,                       \* how the last run returned
    reply,                     \* the string the last run returned
    saved,                     \* the run appended to HISTORY_PATH
    runs                       \* runs begun on this Agent

cfgvars == <<ASSISTANT_ROOT, ASSISTANT_DENYLIST, ASSISTANT_READONLY_DIRS,
             ASSISTANT_GLOBAL_READ, ASSISTANT_GLOBAL_WRITE, cwd>>

\* ------------------------------------------------------------- path sandbox

\* Path.resolve(): ".." removes the last component ("/.." is "/").
RECURSIVE Norm(_, _)
Norm(acc, segs) ==
    IF segs = <<>> THEN acc
    ELSE LET s == Head(segs)
             acc2 == IF s = ".."
                     THEN IF acc = <<>> THEN acc ELSE SubSeq(acc, 1, Len(acc) - 1)
                     ELSE Append(acc, s)
         IN Norm(acc2, Tail(segs))

\* Path(path).resolve() if absolute, else (base / path).resolve().
resolve(base, path) ==
    IF path.abs THEN Norm(<<>>, path.segs) ELSE Norm(base, path.segs)

\* p.resolve().relative_to(base.resolve()) succeeds.
_is_under(p, base) ==
    /\ Len(base) <= Len(p)
    /\ SubSeq(p, 1, Len(base)) = base

ErrDenied == "path denied by admin denylist"
ErrOutsideRead == "path outside allowed read locations"
ErrConfirmWrite == "write outside ASSISTANT_ROOT (confirmation required)"
ErrOutsideRoot == "path outside ASSISTANT_ROOT"

Resolved(p) == [raised |-> FALSE, p |-> p, msg |-> ""]
ValueError(p, m) == [raised |-> TRUE, p |-> p, msg |-> m]

\* The resolver of the tools that take no override (fs.glob, git.*).
_resolve_safe_path(path) ==
    LET p == resolve(ASSISTANT_ROOT, path) IN
    IF \E d \in ASSISTANT_DENYLIST : _is_under(p, d) THEN ValueError(p, ErrDenied)
    ELSE IF ASSISTANT_GLOBAL_WRITE \/ p = ASSISTANT_ROOT THEN Resolved(p)
    ELSE IF ~_is_under(p, ASSISTANT_ROOT) THEN ValueError(p, ErrOutsideRoot)
    ELSE Resolved(p)

_resolve_readable_path_rootFirst(path, allow_outside_root) ==
    LET p == resolve(ASSISTANT_ROOT, path) IN
    IF _is_under(p, ASSISTANT_ROOT) THEN Resolved(p)
    ELSE IF \E d \in ASSISTANT_DENYLIST : _is_under(p, d) THEN ValueError(p, ErrDenied)
    ELSE IF allow_outside_root THEN Resolved(p)
    ELSE IF ASSISTANT_GLOBAL_READ THEN Resolved(p)
    ELSE IF \E base \in ASSISTANT_READONLY_DIRS : _is_under(p, base) THEN Resolved(p)
    ELSE ValueError(p, ErrOutsideRead)

_resolve_readable_path(path, allow_outside_root) ==
    LET p == resolve(ASSISTANT_ROOT, path) IN
    IF \E d \in ASSISTANT_DENYLIST : _is_under(p, d) THEN ValueError(p, ErrDenied)
    ELSE IF _is_under(p, ASSISTANT_ROOT) THEN Resolved(p)
    ELSE IF allow_outside_root THEN Resolved(p)
    ELSE IF ASSISTANT_GLOBAL_READ THEN Resolved(p)
    ELSE IF \E base \in ASSISTANT_READONLY_DIRS : _is_under(p, base) THEN Resolved(p)
    ELSE ValueError(p, ErrOutsideRead)

\* as _resolve_safe_path does: only the root itself, not what lies under it
_resolve_write_path_rootOnly(path, allow_outside_root) ==
    LET p == resolve(ASSISTANT_ROOT, path) IN
    IF \E d \in ASSISTANT_DENYLIST : _is_under(p, d) THEN ValueError(p, ErrDenied)
    ELSE IF p = ASSISTANT_ROOT THEN Resolved(p)
    ELSE IF ASSISTANT_GLOBAL_WRITE \/ allow_outside_root THEN Resolved(p)
    ELSE ValueError(p, ErrConfirmWrite)

\* the global-read toggle taken for the global-write toggle
_resolve_write_path_globalRead(path, allow_outside_root) ==
    LET p == resolve(ASSISTANT_ROOT, path) IN
    IF \E d \in ASSISTANT_DENYLIST : _is_under(p, d) THEN ValueError(p, ErrDenied)
    ELSE IF _is_under(p, ASSISTANT_ROOT) THEN Resolved(p)
    ELSE IF ASSISTANT_GLOBAL_READ \/ allow_outside_root THEN Resolved(p)
    ELSE ValueError(p, ErrConfirmWrite)

_resolve_write_path(path, allow_outside_root) ==
    LET p == resolve(ASSISTANT_ROOT, path) IN
    IF \E d \in ASSISTANT_DENYLIST : _is_under(p, d) THEN ValueError(p, ErrDenied)
    ELSE IF _is_under(p, ASSISTANT_ROOT) THEN Resolved(p)
    ELSE IF ASSISTANT_GLOBAL_WRITE \/ allow_outside_root THEN Resolved(p)
    ELSE ValueError(p, ErrConfirmWrite)

\* ------------------------------------------------------------- tool results

\* What a call returns: a ToolResult dict, or (raised) an exception that left
\* the callee with the message error.  error = "" stands for an absent "error"
\* key; path is the "path" of a confirm_required response (the raw path,
\* str(Path(path))).
ToolResult(ok, confirm, error, action, path) ==
    [ok |-> ok, confirm_required |-> confirm, error |-> error,
     action |-> action, path |-> path, raised |-> FALSE]

OkResult(action) == ToolResult(TRUE, FALSE, "", action, NoPath)
ErrResult(msg) == ToolResult(FALSE, FALSE, msg, "", NoPath)
\* raise ValueError(msg) / TypeError(msg) that nothing in the callee catches
Raise(msg) == [ErrResult(msg) EXCEPT !.raised = TRUE]

_confirm_required_response(action, path) ==
    ToolResult(FALSE, TRUE, "", action, path)

\* The args of a call: the path argument and whether the key
\* "__allow_outside_root" is present (and true).  obj tells a JSON object from
\* the other truthy JSON values a block can carry as "args" (a string, a list).
Args(path, allow) == [path |-> path, allow |-> allow, obj |-> TRUE]
NotAnObject == [path |-> NoPath, allow |-> FALSE, obj |-> FALSE]

tool_fs_read(args) ==
    LET r == _resolve_readable_path(args.path, args.allow) IN
    IF r.raised
    THEN IF r.msg = ErrOutsideRead
         THEN _confirm_required_response("fs.read", args.path)
         ELSE ErrResult(r.msg)
    ELSE OkResult("fs.read")

tool_fs_write(args) ==
    LET r == _resolve_write_path(args.path, args.allow) IN
    IF r.raised
    THEN IF r.msg = ErrConfirmWrite
         THEN _confirm_required_response("fs.write", args.path)
         ELSE ErrResult(r.msg)
    ELSE OkResult("fs.write")

tool_fs_append(args) ==
    LET r == _resolve_write_path(args.path, args.allow) IN
    IF r.raised
    THEN IF r.msg = ErrConfirmWrite
         THEN _confirm_required_response("fs.append", args.path)
         ELSE ErrResult(r.msg)
    ELSE OkResult("fs.append")

\* tool_fs_list: the directory is resolved inside a try; the listing itself
\* (d.iterdir()) is not, so a directory that cannot be read raises.
ErrPermission == "Permission denied"
tool_fs_list(args) ==
    LET r == _resolve_readable_path(args.path, args.allow) IN
    IF r.raised
    THEN IF r.msg = ErrOutsideRead
         THEN {_confirm_required_response("fs.list", args.path)}
         ELSE {ErrResult(r.msg)}
    ELSE {OkResult("fs.list"), ErrResult("directory not found"),
          Raise(ErrPermission)}

\* tool_fs_glob resolves outside any try: the ValueError leaves the tool.
tool_fs_glob(args) ==
    LET r == _resolve_safe_path(args.path) IN
    IF r.raised THEN Raise(r.msg) ELSE OkResult("fs.glob")

tool_fs_mkdir(args) ==
    LET r == _resolve_write_path(args.path, args.allow) IN
    IF r.raised
    THEN IF r.msg = ErrConfirmWrite
         THEN _confirm_required_response("fs.mkdir", args.path)
         ELSE ErrResult(r.msg)
    ELSE OkResult("fs.mkdir")

\* The args of fs.copy: the source (path), the destination and the override.
CopyArgs(src, dest) == [path |-> src, dest |-> dest, allow |-> FALSE, obj |-> TRUE]

\* tool_fs_copy: the one override of the call serves the read check of the
\* source and the write check of the destination.
tool_fs_copy(args) ==
    LET ps == _resolve_readable_path(args.path, args.allow)
        pd == _resolve_write_path(args.dest, args.allow)
    IN IF ps.raised
       THEN IF ps.msg = ErrOutsideRead
            THEN _confirm_required_response("fs.copy", args.path)
            ELSE ErrResult(ps.msg)
       ELSE IF pd.raised
       THEN IF pd.msg = ErrConfirmWrite
            THEN _confirm_required_response("fs.copy", args.dest)
            ELSE ErrResult(pd.msg)
       ELSE OkResult("fs.copy")

\* tool_edit_replace: the file is read through _resolve_readable_path(path),
\* called without the override and with every exception turned into an
\* ordinary error; the write check follows the read.
tool_edit_replace(args) ==
    LET rp == _resolve_readable_path(args.path, FALSE)
        wp == _resolve_write_path(args.path, args.allow)
    IN IF rp.raised THEN {ErrResult(rp.msg)}
       ELSE {ErrResult("file not found"),
             IF ~wp.raised THEN OkResult("edit.replace")
             ELSE IF wp.msg = ErrConfirmWrite
             THEN _confirm_required_response("edit.replace", args.path)
             ELSE ErrResult(wp.msg)}

\* tool_spreadsheet_query: the checks of the libraries and of the query come
\* first; the path is resolved with the override, and every exception of the
\* resolver is turned into an ordinary error.
tool_spreadsheet_query(args) ==
    LET p == _resolve_readable_path(args.path, args.allow) IN
    {ErrResult("tool failed"),
     IF p.raised THEN ErrResult(p.msg) ELSE OkResult("spreadsheet.query")}

\* No sandbox operation has been applied on its own.
NoOp == [op |-> "none", p |-> <<>>, allow |-> FALSE,
         raised |-> FALSE, msg |-> "", confirm |-> FALSE, ok |-> FALSE]

\* call_tool has not been called on its own.
NoDispatch == [tool |-> "", keys |-> {}, raised |-> FALSE, ok |-> FALSE,
               confirm |-> FALSE, msg |-> ""]

\* A generator returned by run_stream: the event it is suspended at ("start"
\* before the first next(), "done" once it has returned), the round, the
\* content chunks of the round, the tool invocations and the events so far.
Generator(pos, rnd, chunks, invoked, emitted) ==
    [pos |-> pos, round |-> rnd, chunks |-> chunks, invoked |-> invoked,
     emitted |-> emitted]

\* The websocket endpoint between two chat requests: no generator.
NoStream == [cpc |-> "idle", g |-> Generator("done", 0, 0, 0, 0),
             event |-> "none", user_response |-> "None",
             from |-> "none", inj |-> "None", delivered |-> 0]

agentvars == <<pc, messages, elided, approved, expecting_tools, tool_success,
               retries, round, model_response, tool_call, result, dispatched,
               asks, ev, requests, validSeen, ret, reply, saved, runs>>

vars == <<cfgvars, sb, disp, stream, engine, gate, fetch, agentvars>>

\* ------------------------------------------------------------ tool dispatch

\* The names registry() declares (the tools the model of the loop uses).
Registry ==
    {"fs.read", "fs.write", "fs.append", "fs.glob", "help.tools", "sys.time",
     "fs.list", "crypto.price", "fx.rate", "web.search", "web.get_many",
     "sys.time.bulk", "sys.time.diff", "geo.countries", "geo.continents",
     "edit.replace", "spreadsheet.query", "fs.mkdir", "fs.copy"}

\* The tools that read the JSON of a remote service with data.get(...) outside
\* their try: a reply that is not a JSON object raises AttributeError.
RemoteJsonTools == {"crypto.price", "fx.rate"}
ErrNotAMapping == "object has no attribute 'get'"

\* call_tool._normalize_tool_alias; a name that is not a string becomes "".
_normalize_tool_alias(n) ==
    IF n \in {"fs.writeFile", "fs-extra.writeFile"} THEN "fs.write" ELSE n

NoArgs == Args(NoPath, FALSE)

\* The parameter names registry() declares for a tool.
params(n) ==
    IF n \in {"fs.read", "fs.write", "fs.append", "fs.glob", "fs.list",
              "edit.replace", "spreadsheet.query", "fs.mkdir"}
    THEN {"path"}
    ELSE IF n = "fs.copy" THEN {"src", "dest"}
    ELSE {}

\* The keys of an args mapping.
Keys(args) ==
    (IF args.path # NoPath THEN {"path"} ELSE {})
       \cup (IF args.allow THEN {"__allow_outside_root"} ELSE {})

\* The mapping tools[n].func receives: a2 = dict(a or {}), every key kept.
executor_args(name, args) == args

ErrDictUpdate == "dictionary update sequence element"

\* The results call_tool(name, args) can return.  dict(a) raises on args that
\* are not a mapping when the name is a string.  The fs tools are decided by
\* the sandbox; the other tools depend on the outside world and may succeed or
\* fail.
call_tool(name, args) ==
    LET n == _normalize_tool_alias(name)
        a == executor_args(name, args)
    IN
    IF n # "" /\ ~args.obj THEN {Raise(ErrDictUpdate)}
    ELSE IF n \notin Registry THEN {ErrResult("unknown tool")}
    ELSE IF n = "fs.read" THEN {tool_fs_read(a)}
    ELSE IF n = "fs.write" THEN {tool_fs_write(a)}
    ELSE IF n = "fs.append" THEN {tool_fs_append(a)}
    ELSE IF n = "fs.glob" THEN {tool_fs_glob(a)}
    ELSE IF n = "fs.list" THEN tool_fs_list(a)
    ELSE IF n = "fs.mkdir" THEN {tool_fs_mkdir(a)}
    ELSE IF n = "fs.copy" THEN {tool_fs_copy(a)}
    ELSE IF n = "edit.replace" THEN tool_edit_replace(a)
    ELSE IF n = "spreadsheet.query" THEN tool_spreadsheet_query(a)
    ELSE IF n = "help.tools" THEN {OkResult("help.tools")}
    ELSE IF n \in RemoteJsonTools
    THEN {OkResult(n), ErrResult("tool failed"), Raise(ErrNotAMapping)}
    ELSE {OkResult(n), ErrResult("tool failed")}

\* ---------------------------------------------------------- model responses

\* A model response: free text with no <tool_call> block ("none"), with a
\* block whose JSON does not parse ("malformed"), with the block {} ("empty")
\* or with a block holding a JSON object ("object") whose "tool" is tool ("" if
\* the key is absent) and whose "args" is args; extra tells that the object
\* has a top-level key besides "tool" and "args".  prose tells that there is
\* text outside the block, pad that the text begins or ends with whitespace.
Response(block, tool, args) ==
    [block |-> block, tool |-> tool, args |-> args, extra |-> FALSE,
     prose |-> (block = "none"), pad |-> FALSE]
TextOnly == Response("none", "", NoArgs)
Malformed == Response("malformed", "", NoArgs)
EmptyObj == Response("empty", "", NoArgs)
Block(tool, args) == Response("object", tool, args)
WithExtraKey(text) == [text EXCEPT !.extra = TRUE]
Padded(text) == [text EXCEPT !.pad = TRUE]
\* a block with a sentence of the model before it
WithProse(text) == [text EXCEPT !.prose = TRUE]
\* the empty string
EmptyString == [Response("none", "", NoArgs) EXCEPT !.prose = FALSE]

PIn == [abs |-> FALSE, segs |-> <<"a">>]
POutA == [abs |-> TRUE, segs |-> <<"b", "a">>]
POutB == [abs |-> TRUE, segs |-> <<"b", "b">>]
PDenied == [abs |-> TRUE, segs |-> <<"a", "b">>]

Responses ==
    {TextOnly, Padded(TextOnly), Malformed, EmptyObj,
     Block("fs.write", Args(POutA, FALSE)),
     WithProse(Block("fs.write", Args(POutB, FALSE))),
     Block("fs.read", Args(POutA, FALSE)), Block("fs.write", Args(PIn, FALSE)),
     Block("fs.write", Args(PDenied, FALSE)), Block("sys.time", NoArgs),
     Block("nao.existe", NoArgs), Block("", NoArgs),
     WithExtraKey(Block("sys.time", NoArgs)), Block("sys.time", NotAnObject),
     Block("fs.glob", Args(POutA, FALSE)),
     Block("fs.write", Args(POutA, TRUE))}

\* _strip_internal: the <tool_call> and <tool_result> blocks removed, then
\* str.strip().
_strip_internal_keepPad(text) ==
    [block |-> "none", tool |-> "", args |-> NoArgs, extra |-> FALSE,
     prose |-> text.prose, pad |-> text.pad]
_strip_internal(text) ==
    [block |-> "none", tool |-> "", args |-> NoArgs, extra |-> FALSE,
     prose |-> text.prose, pad |-> FALSE]

\* extract_tool_call: None unless the regex finds a block and json.loads
\* accepts it; otherwise the parsed dict ({} is a dict that is falsy).
None == [none |-> TRUE, empty |-> FALSE, tool |-> "", args |-> NoArgs,
         extra |-> FALSE]
extract_tool_call(text) ==
    IF text.block \in {"empty", "object"}
    THEN [none |-> FALSE, empty |-> (text.block = "empty"),
          tool |-> text.tool, args |-> text.args, extra |-> text.extra]
    ELSE None

\* ------------------------------------------------------- conversation state

NoRes == ToolResult(FALSE, FALSE, "", "-", NoPath)
Turn(role, kind, text, res) == [role |-> role, kind |-> kind, text |-> text, res |-> res]
SystemTurn == Turn("system", "system", TextOnly, NoRes)
UserTurn == Turn("user", "prompt", TextOnly, NoRes)
AssistantTurn(text) == Turn("assistant", "response", text, NoRes)
NudgeTurn == Turn("user", "nudge", TextOnly, NoRes)
ErrorFeedback(res) == Turn("user", "error_feedback", TextOnly, res)
\* format_tool_result(result) appended as a user turn
format_tool_result_asAssistant(res) == Turn("assistant", "tool_result", TextOnly, res)
format_tool_result(res) == Turn("user", "tool_result", TextOnly, res)

Last(seq) == seq[Len(seq)]

\* self.messages.append for each turn of turns, keeping the system turn and
\* the MaxKeep most recent turns.
add_overwriteLast(msgs, turns) ==
    LET all == (IF Len(msgs) > 1 THEN SubSeq(msgs, 1, Len(msgs) - 1) ELSE msgs) \o turns IN
    IF Len(all) > MaxKeep + 1
    THEN <<all[1]>> \o SubSeq(all, Len(all) - MaxKeep + 1, Len(all))
    ELSE all
add(msgs, turns) ==
    LET all == msgs \o turns IN
    IF Len(all) > MaxKeep + 1
    THEN <<all[1]>> \o SubSeq(all, Len(all) - MaxKeep + 1, Len(all))
    ELSE all

Overflows(msgs, turns) == Len(msgs) + Len(turns) > MaxKeep + 1

\* ----------------------------------------------------------------- Agent.run

MaxRounds_13 == 13
MaxRounds == 12
MaxRetries_3 == 3
MaxRetries == 2

\* A prompt, by what the lexical checks make of it: expects_tool_use(prompt)
\* and the heuristic rule it matches.
Prompts == [expects : BOOLEAN, heur : {"none", "help.tools", "sys.time", "fs.read"}]

\* _heuristic_tool_calls: the forced calls of the matching rule.
_heuristic_tool_calls(prompt) ==
    IF prompt.heur = "none" THEN <<>>
    ELSE IF prompt.heur = "fs.read" THEN <<Block("fs.read", Args(POutA, FALSE))>>
    ELSE <<Block(prompt.heur, NoArgs)>>

\* The tools whose ok result _run_heuristic_shortcuts turns into the answer.
TerminalTools_noTime == {"help.tools"}
TerminalTools == {"sys.time", "help.tools"}

\* The answer _run_heuristic_shortcuts formats from the ok result of tool.
HeuristicAnswer(tool) == [TextOnly EXCEPT !.tool = tool]

\* is_path_approved (agent.py): raw_path is resolved against the cwd.
is_path_approved_exact(raw_path) ==
    /\ raw_path # NoPath
    /\ resolve(cwd, raw_path) \in approved
is_path_approved(raw_path) ==
    /\ raw_path # NoPath
    /\ \E a \in approved : _is_under(resolve(cwd, raw_path), a)

parent(p) == IF p = <<>> THEN p ELSE SubSeq(p, 1, Len(p) - 1)

\* remember_approval: the directory itself, or the parent of a file.
remember_approval_replace(set, raw_path, is_dir) ==
    IF raw_path = NoPath THEN set
    ELSE LET target == resolve(cwd, raw_path) IN
         {IF is_dir THEN target ELSE parent(target)}
remember_approval(set, raw_path, is_dir) ==
    IF raw_path = NoPath THEN set
    ELSE LET target == resolve(cwd, raw_path) IN
         set \cup {IF is_dir THEN target ELSE parent(target)}

\* rerun_args = dict(args); rerun_args["__allow_outside_root"] = True
rerun_args_noFlag(args) == args
rerun_args(args) == [args EXCEPT !.allow = TRUE]

\* The answers by which the caller approves.
Yes == {"s", "sim", "y", "yes"}

\* resp in ("s", "sim", "y", "yes")
approves_emptyIsYes(resp) == resp # "n"
approves(resp) == resp \in {"s", "sim", "y", "yes"}

user_denied == ErrResult("user_denied")

\* try: result = call_tool(name, rerun_args)
\* except Exception as exc: result = {"ok": False, "error": str(exc)}
caught(r) == IF r.raised THEN ErrResult(r.error) ELSE r

\* str(result.get("error")) if not is_ok else ""
error_code(res) ==
    IF res.ok THEN "" ELSE IF res.error = "" THEN "None" ELSE res.error

\* A search query is the sequence of its words; None and "" are the empty one.
NoQuery == <<>>

Assets == {"bitcoin", "ethereum"}

\* self._last_fx_request: base, target and amount.
FxRequests ==
    {[base |-> "USD", target |-> "BRL", amount |-> 1],
     [base |-> "EUR", target |-> "BRL", amount |-> 100]}

\* The carried session state of Agent.__init__ (lines 48-55): no last asset,
\* no last fx request, no last search query.
NoSession ==
    [asset |-> "None", fx |-> [base |-> "None", target |-> "None", amount |-> 0],
     search |-> NoQuery]

\* A prompt that passes the tests of no rule.
NoMatch ==
    [match |-> {}, regions |-> FALSE, tokens |-> FALSE, path |-> POutA,
     asset |-> "bitcoin", fx |-> [base |-> "USD", target |-> "BRL", amount |-> 1],
     today |-> FALSE]

\* The heuristic engine before any run.
EngineFresh ==
    [pc |-> "idle", before |-> NoSession, session |-> NoSession,
     prompt |-> NoMatch, rule |-> 0, invoked |-> <<>>, calls |-> <<>>, i |-> 0,
     turns |-> <<>>, dispatched |-> <<>>, results |-> <<>>, answer |-> "None"]

\* The loop before any tool call: no call, no result, no question asked; by
\* holds the directories remembered in answer to a question about a write.
GateFresh ==
    [pc |-> "idle", call |-> Block("", NoArgs), result |-> NoRes, ev |-> "new",
     dispatched |-> <<>>, asks |-> 0, reason |-> "", by |-> {}]

\* tool_web_get_many has not been called.
FetchFresh ==
    [pc |-> "idle", urls |-> <<>>, max_workers |-> 0, started |-> 0,
     done |-> {}, failed |-> {}, pages |-> <<>>, ok |-> FALSE]

AgentFresh ==
    /\ pc = "idle"
    /\ messages = <<SystemTurn>>
    /\ elided = FALSE
    /\ approved = {}
    /\ expecting_tools = FALSE
    /\ tool_success = FALSE
    /\ retries = 0
    /\ round = 0
    /\ model_response = TextOnly
    /\ tool_call = None
    /\ result = NoRes
    /\ dispatched = <<>>
    /\ asks = 0
    /\ ev = "new"
    /\ requests = 0
    /\ validSeen = FALSE
    /\ ret = "none"
    /\ reply = EmptyString
    /\ saved = FALSE
    /\ runs = 0

\* The configuration of the runs: config.py's defaults (no global flag, no
\* read-only directory), a root and a denied directory inside the root.
Init ==
    /\ ASSISTANT_ROOT = <<"a">>
    /\ ASSISTANT_DENYLIST = {<<"a", "b">>}
    /\ ASSISTANT_READONLY_DIRS = {}
    /\ ASSISTANT_GLOBAL_READ = FALSE
    /\ ASSISTANT_GLOBAL_WRITE = FALSE
    /\ cwd = ASSISTANT_ROOT
    /\ sb = NoOp
    /\ disp = NoDispatch
    /\ stream = NoStream
    /\ engine = EngineFresh
    /\ gate = GateFresh
    /\ fetch = FetchFresh
    /\ AgentFresh

\* End of a loop iteration ("continue" or the end of the body): the next
\* iteration, or after the last one the history save and the return of the
\* last assistant content.
LoopBack ==
    /\ round' = round + 1
    /\ IF round + 1 < MaxRounds
       THEN /\ pc' = "model" /\ ret' = "none" /\ saved' = FALSE
            /\ reply' = EmptyString
       ELSE /\ pc' = "idle" /\ ret' = "fallback" /\ saved' = TRUE
            /\ reply' = IF Last(messages').role = "assistant"
                         THEN _strip_internal(Last(messages').text)
                         ELSE EmptyString

\* Lines 757-759: a denial of the caller ends the tool-expected mode.
expecting_tools_after_kept(expecting, res) == expecting
expecting_tools_after(expecting, res) ==
    IF ~res.ok /\ error_code(res) = "user_denied" THEN FALSE ELSE expecting

\* Line 685: the test that decides between a nudge and the final answer.
should_nudge_afterSuccess(expecting, success, used) ==
    expecting /\ used < MaxRetries
should_nudge(expecting, success, used) ==
    expecting /\ ~success /\ used < MaxRetries

\* Lines 736-764: the result of the tool call is fed back.
Handle(pre, res) ==
    LET ec == error_code(res)
        failed == ~res.ok /\ ec # "user_denied"
        turns == IF failed
                 THEN <<ErrorFeedback(res), format_tool_result(res)>>
                 ELSE <<format_tool_result(res)>>
    IN /\ messages' = add(messages, pre \o turns)
       /\ elided' = (elided \/ Overflows(messages, pre \o turns))
       /\ retries' = IF failed /\ retries < MaxRetries THEN retries + 1 ELSE retries
       /\ expecting_tools' = expecting_tools_after(expecting_tools, res)
       /\ tool_success' = (tool_success \/ res.ok)
       /\ LoopBack

\* Lines 684-695: the response holds no tool call.
NoToolCall(pre) ==
    /\ UNCHANGED <<expecting_tools, tool_success, approved, result, asks>>
    /\ dispatched' = <<>>
    /\ IF should_nudge(expecting_tools, tool_success, retries)
       THEN /\ retries' = retries + 1
            /\ messages' = add(messages, pre \o <<NudgeTurn>>)
            /\ elided' = (elided \/ Overflows(messages, pre \o <<NudgeTurn>>))
            /\ ev' = "nudge"
            /\ LoopBack
       ELSE /\ retries' = retries
            /\ messages' = add(messages, pre)
            /\ elided' = (elided \/ Overflows(messages, pre))
            /\ ev' = "final"
            /\ round' = round
            /\ pc' = "idle" /\ ret' = "final" /\ saved' = FALSE
            /\ reply' = _strip_internal(Last(pre).text)

\* Agent.run up to the first inference request, add_user and
\* _run_heuristic_shortcuts, on an agent whose conversation is msgs (eli: turns
\* of it have left the window) and whose approval memory is appr.
RunStartFrom(msgs, eli, appr) ==
    /\ pc = "idle"
    /\ runs < MaxRuns
    /\ \E prompt \in Prompts :
         LET calls == _heuristic_tool_calls(prompt) IN
         /\ runs' = runs + 1
         /\ expecting_tools' = prompt.expects
         /\ retries' = 0
         /\ round' = 0
         /\ requests' = 0
         /\ validSeen' = FALSE
         /\ model_response' = TextOnly
         /\ tool_call' = None
         /\ result' = NoRes
         /\ dispatched' = <<>>
         /\ asks' = 0
         /\ saved' = FALSE
         /\ approved' = appr
         /\ IF calls = <<>>
            THEN /\ messages' = add(msgs, <<UserTurn>>)
                 /\ elided' = (eli \/ Overflows(msgs, <<UserTurn>>))
                 /\ tool_success' = FALSE
                 /\ ev' = "start"
                 /\ pc' = "model" /\ ret' = "none"
                 /\ reply' = EmptyString
            ELSE \E r \in call_tool(calls[1].tool, calls[1].args) :
                 LET turns == IF r.raised
                              THEN <<UserTurn, AssistantTurn(calls[1])>>
                              ELSE <<UserTurn, AssistantTurn(calls[1]),
                                     format_tool_result(r)>>
                 IN
                 /\ messages' = add(msgs, turns)
                 /\ elided' = (eli \/ Overflows(msgs, turns))
                 /\ IF calls[1].tool \in TerminalTools /\ r.ok
                    THEN /\ tool_success' = FALSE
                         /\ ev' = "shortcut"
                         /\ pc' = "idle" /\ ret' = "shortcut"
                         /\ reply' = HeuristicAnswer(calls[1].tool)
                    ELSE /\ tool_success' = TRUE
                         /\ ev' = "continue"
                         /\ pc' = "model" /\ ret' = "none"
                         /\ reply' = EmptyString
    /\ UNCHANGED <<cfgvars, sb, disp, stream, engine, gate, fetch>>

\* One more call of agent.run(prompt) on the Agent of the session.
RunStart == RunStartFrom(messages, elided, approved)

\* A valid tool call as the calling convention defines it: a well-formed
\* block naming a registered tool.
IsValidToolCall(text) ==
    /\ text.block = "object"
    /\ text.tool # ""
    /\ text.args.obj
    /\ ~text.extra
    /\ _normalize_tool_alias(text.tool) \in Registry

\* One iteration of the loop up to its end or to the confirmation prompt.
ModelTurn ==
    /\ pc = "model"
    /\ \E text \in Responses :
         LET tc == extract_tool_call(text)
             pre == <<AssistantTurn(text)>>
         IN /\ model_response' = text
            /\ requests' = requests + 1
            /\ tool_call' = tc
            /\ validSeen' = (validSeen \/ IsValidToolCall(text))
            /\ IF tc.none \/ tc.empty
               THEN NoToolCall(pre)
               ELSE \E r1 \in call_tool(tc.tool, tc.args) :
                    IF r1.raised
                    THEN /\ dispatched' = <<[tool |-> tc.tool, args |-> tc.args]>>
                         /\ asks' = 0
                         /\ result' = r1
                         /\ ev' = "exception"
                         /\ messages' = add(messages, pre)
                         /\ elided' = (elided \/ Overflows(messages, pre))
                         /\ pc' = "idle" /\ ret' = "exception" /\ saved' = FALSE
                         /\ reply' = EmptyString
                         /\ UNCHANGED <<approved, retries, expecting_tools,
                                        tool_success, round>>
                    ELSE IF r1.confirm_required
                    THEN IF is_path_approved(r1.path)
                         THEN \E x2 \in call_tool(tc.tool, rerun_args(tc.args)) :
                              LET r2 == caught(x2) IN
                              /\ dispatched' = <<[tool |-> tc.tool, args |-> tc.args],
                                                 [tool |-> tc.tool, args |-> rerun_args(tc.args)]>>
                              /\ asks' = 0
                              /\ result' = r2
                              /\ ev' = "rerun"
                              /\ approved' = approved
                              /\ Handle(pre, r2)
                         ELSE /\ dispatched' = <<[tool |-> tc.tool, args |-> tc.args]>>
                              /\ asks' = 0
                              /\ result' = r1
                              /\ ev' = "confirm_required"
                              /\ messages' = add(messages, pre)
                              /\ elided' = (elided \/ Overflows(messages, pre))
                              /\ pc' = "confirm"
                              /\ UNCHANGED <<approved, retries, expecting_tools,
                                             tool_success, round, ret, reply, saved>>
                    ELSE /\ dispatched' = <<[tool |-> tc.tool, args |-> tc.args]>>
                         /\ asks' = 0
                         /\ result' = r1
                         /\ ev' = "result"
                         /\ approved' = approved
                         /\ Handle(pre, r1)
    /\ UNCHANGED <<cfgvars, sb, disp, stream, engine, gate, fetch, runs>>

\* The caller answers the confirmation prompt (lines 720-734), and the loop
\* goes on to the end of the iteration.
Confirm ==
    /\ pc = "confirm"
    /\ \E resp \in {"s", "n", ""} :
         /\ asks' = asks + 1
         /\ ev' = IF resp \in Yes THEN "approved" ELSE "denied"
         /\ IF approves(resp)
            THEN \E is_dir \in BOOLEAN :
                 \E x2 \in call_tool(tool_call.tool, rerun_args(tool_call.args)) :
                 LET r2 == caught(x2) IN
                 /\ approved' = remember_approval(approved, result.path, is_dir)
                 /\ dispatched' = Append(dispatched,
                        [tool |-> tool_call.tool, args |-> rerun_args(tool_call.args)])
                 /\ result' = r2
                 /\ Handle(<<>>, r2)
            ELSE /\ approved' = approved
                 /\ dispatched' = dispatched
                 /\ result' = user_denied
                 /\ Handle(<<>>, user_denied)
    /\ UNCHANGED <<cfgvars, sb, disp, stream, engine, gate, fetch, runs, model_response, tool_call, requests, validSeen>>

Next == RunStart \/ ModelTurn \/ Confirm

Spec == Init /\ [][Next]_vars

\* ---------------------------------------------- the sandbox on its own

\* The configurations: any root, at most maxDeny denied directories, at most
\* one read-only directory (a top-level one), any setting of the two toggles.
TopDirs == {<<n>> : n \in Names}

Configs(maxDeny) ==
    [root : AbsPaths,
     deny : {D \in SUBSET AbsPaths : Cardinality(D) <= maxDeny},
     ro : {D \in SUBSET TopDirs : Cardinality(D) <= 1},
     gr : BOOLEAN, gw : BOOLEAN]

SandboxInit ==
    /\ \E c \in Configs(1) :
          /\ ASSISTANT_ROOT = c.root
          /\ ASSISTANT_DENYLIST = c.deny
          /\ ASSISTANT_READONLY_DIRS = c.ro
          /\ ASSISTANT_GLOBAL_READ = c.gr
          /\ ASSISTANT_GLOBAL_WRITE = c.gw
    /\ cwd = ASSISTANT_ROOT
    /\ sb = NoOp
    /\ disp = NoDispatch
    /\ stream = NoStream
    /\ engine = EngineFresh
    /\ gate = GateFresh
    /\ fetch = FetchFresh
    /\ AgentFresh

Outcome(op, r, allow) ==
    [op |-> op, p |-> r.p, allow |-> allow, raised |-> r.raised, msg |-> r.msg,
     confirm |-> FALSE, ok |-> ~r.raised]

ToolOutcome(op, path, allow, res) ==
    [op |-> op, p |-> resolve(ASSISTANT_ROOT, path), allow |-> allow,
     raised |-> res.raised, msg |-> res.error, confirm |-> res.confirm_required,
     ok |-> res.ok]

ResolveReadable ==
    \E path \in RawPaths, allow \in BOOLEAN :
       /\ sb = NoOp /\ disp = NoDispatch
       /\ sb' = Outcome("resolve_readable", _resolve_readable_path(path, allow), allow)
       /\ UNCHANGED <<cfgvars, disp, stream, engine, gate, fetch, agentvars>>

ResolveWrite ==
    \E path \in RawPaths, allow \in BOOLEAN :
       /\ sb = NoOp /\ disp = NoDispatch
       /\ sb' = Outcome("resolve_write", _resolve_write_path(path, allow), allow)
       /\ UNCHANGED <<cfgvars, disp, stream, engine, gate, fetch, agentvars>>

FsRead ==
    \E path \in RawPaths, allow \in BOOLEAN :
       /\ sb = NoOp /\ disp = NoDispatch
       /\ sb' = ToolOutcome("fs.read", path, allow, tool_fs_read(Args(path, allow)))
       /\ UNCHANGED <<cfgvars, disp, stream, engine, gate, fetch, agentvars>>

FsWrite ==
    \E path \in RawPaths, allow \in BOOLEAN :
       /\ sb = NoOp /\ disp = NoDispatch
       /\ sb' = ToolOutcome("fs.write", path, allow, tool_fs_write(Args(path, allow)))
       /\ UNCHANGED <<cfgvars, disp, stream, engine, gate, fetch, agentvars>>

FsAppend ==
    \E path \in RawPaths, allow \in BOOLEAN :
       /\ sb = NoOp /\ disp = NoDispatch
       /\ sb' = ToolOutcome("fs.append", path, allow, tool_fs_append(Args(path, allow)))
       /\ UNCHANGED <<cfgvars, disp, stream, engine, gate, fetch, agentvars>>

\* A caller of the dispatcher (the loop, the heuristics, a test) calls
\* call_tool(name, args) with any name and any keys.
ToolNames ==
    {"fs.read", "fs.write", "fs.append", "fs.glob", "help.tools", "sys.time",
     "fs.writeFile", "nao.existe", "", "edit.replace", "spreadsheet.query"}
CallPaths == {NoPath, PIn, POutA, PDenied}

CallTool ==
    \E name \in ToolNames,
       args \in [path : CallPaths, allow : BOOLEAN, obj : {TRUE}] \cup {NotAnObject} :
       /\ sb = NoOp /\ disp = NoDispatch
       /\ \E res \in call_tool(name, args) :
             disp' = [tool |-> name, keys |-> Keys(executor_args(name, args)),
                      raised |-> res.raised, ok |-> res.ok,
                      confirm |-> res.confirm_required, msg |-> res.error]
       /\ UNCHANGED <<cfgvars, sb, stream, engine, gate, fetch, agentvars>>

SandboxNext ==
    ResolveReadable \/ ResolveWrite \/ FsRead \/ FsWrite \/ FsAppend \/ CallTool

SpecSandbox == SandboxInit /\ [][SandboxNext]_vars

\* The runs with the scheduling the code has: every call of the model, of a
\* tool and of input() returns, so an iteration that has begun ends.
RunStartLive == runs < MaxRunsLive /\ RunStart

NextLive == RunStartLive \/ ModelTurn \/ Confirm

\* ModelTurn and Confirm are never enabled together (pc tells them apart), so
\* one condition on their disjunction says that each of them is taken.
SpecLive == Init /\ [][NextLive]_vars /\ WF_vars(ModelTurn \/ Confirm)

\* ------------------------------------------- chat requests of one connection
\* Agent.run_stream starts a run as Agent.run does.
run_stream_start(msgs, appr) == RunStartFrom(msgs, FALSE, appr)

\* websocket_endpoint receives the next chat request of the connection: it
\* constructs an Agent (system turn only, empty _approved_paths), replays the
\* history the client sent with add_user / add_assistant, and starts the run.
WebChatRequest ==
    \E history \in {<<>>, <<UserTurn, AssistantTurn(TextOnly)>>} :
       run_stream_start(<<SystemTurn>> \o history, {})

SpecWeb == Init /\ [][WebChatRequest \/ ModelTurn \/ Confirm]_vars

\* ------------------------------------------------------------ streamed runs
\* The websocket endpoint of web/main.py drives the generator run_stream.
\* The generator itself is modelled from the streaming protocol: each round
\* yields a thought or content chunks, then either ends the run or yields a
\* tool_call, the tool is invoked, and the round ends with a tool_result,
\* after a confirm_required when the tool wants a confirmation.

MaxChunks == 2      \* content events of one round

Decisions == {"approved", "denied"}

\* The generator yields event.
Yield(g, event) == [g EXCEPT !.pos = event, !.emitted = g.emitted + 1]

\* The next round begins, or the generator returns after the last round.
Begin(g) ==
    IF g.round < MaxRounds
    THEN {Yield([g EXCEPT !.round = g.round + 1, !.chunks = 0], "thought"),
          Yield([g EXCEPT !.round = g.round + 1, !.chunks = 1], "content")}
    ELSE {[g EXCEPT !.pos = "done"]}

\* The generator is resumed with the value v (None for next()) and runs to
\* its next yield or to its return.
Resume(g, v) ==
    IF g.pos \in {"start", "tool_result"} THEN Begin(g)
    ELSE IF g.pos = "thought" THEN {Yield([g EXCEPT !.chunks = 1], "content")}
    ELSE IF g.pos = "content"
    THEN {Yield(g, "tool_call"), [g EXCEPT !.pos = "done"]}
            \cup (IF g.chunks < MaxChunks
                  THEN {Yield([g EXCEPT !.chunks = g.chunks + 1], "content")}
                  ELSE {})
    ELSE IF g.pos = "tool_call"
    THEN LET h == [g EXCEPT !.invoked = g.invoked + 1] IN
         {Yield(h, "confirm_required"), Yield(h, "tool_result")}
    ELSE IF g.pos = "confirm_required"
    THEN IF v = "approved"
         THEN {Yield([g EXCEPT !.invoked = g.invoked + 1], "tool_result")}
         ELSE {Yield(g, "tool_result")}
    ELSE {g}

\* event.get("type") == "confirm_required"
needs_decision_wrongType(event) == event = "tool_call"
needs_decision(event) == event = "confirm_required"

\* A chat request arrives: response_generator = agent.run_stream(...).
StreamOpen ==
    /\ stream.cpc = "idle"
    /\ stream' = [NoStream EXCEPT !.cpc = "next",
                                  !.g = Generator("start", 0, 0, 0, 0)]
    /\ UNCHANGED <<cfgvars, sb, disp, engine, gate, fetch, agentvars>>

\* event = next(response_generator); await websocket.send_json(event); the
\* test of the event's type.  StopIteration ends the inner loop.
CallerNext ==
    /\ stream.cpc = "next"
    /\ \E h \in Resume(stream.g, "None") :
         stream' = IF h.pos = "done"
                   THEN [stream EXCEPT !.g = h, !.from = stream.g.pos,
                                       !.inj = "None", !.cpc = "idle"]
                   ELSE [stream EXCEPT !.g = h, !.from = stream.g.pos,
                                       !.inj = "None", !.event = h.pos,
                                       !.delivered = stream.delivered + 1,
                                       !.cpc = IF needs_decision(h.pos)
                                               THEN "receive" ELSE "next"]
    /\ UNCHANGED <<cfgvars, sb, disp, engine, gate, fetch, agentvars>>

\* user_response = await websocket.receive_json()
CallerReceive ==
    /\ stream.cpc = "receive"
    /\ \E d \in Decisions :
         stream' = [stream EXCEPT !.user_response = d, !.cpc = "send"]
    /\ UNCHANGED <<cfgvars, sb, disp, engine, gate, fetch, agentvars>>

\* response_generator.send(user_response): the generator runs to its next
\* yield, and the event send() returns is not used.
CallerSend ==
    /\ stream.cpc = "send"
    /\ \E h \in Resume(stream.g, stream.user_response) :
         stream' = [stream EXCEPT !.g = h, !.from = stream.g.pos,
                                  !.inj = stream.user_response,
                                  !.cpc = IF h.pos = "done" THEN "idle" ELSE "next"]
    /\ UNCHANGED <<cfgvars, sb, disp, engine, gate, fetch, agentvars>>

StreamNext == StreamOpen \/ CallerNext \/ CallerReceive \/ CallerSend

SpecStream == Init /\ [][StreamNext]_vars

\* ------------------------------------------------ the heuristic engine

MaxMatch == 2       \* rules whose predicate one prompt satisfies

\* self.heuristic_rules, in the order of declaration.
heuristic_rules ==
    <<[tool |-> "sys.time.diff", handler |-> "handle_time_diff"],
      [tool |-> "sys.time", handler |-> "handle_time_loc"],
      [tool |-> "sys.time.bulk", handler |-> "handle_time_bulk"],
      [tool |-> "geo.countries", handler |-> "handle_geo_countries"],
      [tool |-> "fx.rate", handler |-> "handle_fx_convert"],
      [tool |-> "web.search", handler |-> "handle_price_search"],
      [tool |-> "web.search", handler |-> "handle_correction"],
      [tool |-> "web.search", handler |-> "handle_web_search"],
      [tool |-> "help.tools", handler |-> "lambda"],
      [tool |-> "geo.continents", handler |-> "lambda"],
      [tool |-> "fs.list", handler |-> "handle_fs_path"],
      [tool |-> "fs.read", handler |-> "handle_fs_path"]>>

RuleIds == 1..Len(heuristic_rules)

\* an absolute path under the root
PRootA == [abs |-> TRUE, segs |-> <<"a", "a">>]

\* A prompt, by what the rules make of it: the rules whose pattern and
\* keyword tests it passes, whether _extract_regions_from_prompt finds a
\* region in it, whether it holds one of the tokens handle_correction looks
\* for, the path the fs patterns capture, the asset the price pattern
\* captures, the conversion handle_fx_convert reads in it, and whether the
\* text a search is made of holds the word "hoje".
\* What a prompt holds besides the matches is told apart only where a
\* handler of a matching rule reads it.
HeurPrompts ==
    {p \in [match : {M \in SUBSET RuleIds : Cardinality(M) <= MaxMatch},
            regions : BOOLEAN, tokens : BOOLEAN, path : {POutA, PRootA},
            asset : Assets, fx : FxRequests, today : BOOLEAN] :
       LET read(hs) == \E i \in p.match : heuristic_rules[i].handler \in hs IN
       /\ p.regions => read({"handle_time_bulk", "handle_geo_countries"})
       /\ p.tokens => read({"handle_correction"})
       /\ p.path = PRootA => read({"handle_fs_path"})
       /\ p.asset # NoMatch.asset => read({"handle_price_search"})
       /\ p.fx # NoMatch.fx => read({"handle_fx_convert"})
       /\ p.today => read({"handle_web_search"})}

\* What a handler returns (None, the args of one call, a list of calls) and
\* the carried session state it leaves.
ReturnsNone(s) == [kind |-> "None", args |-> NoArgs, items |-> <<>>, session |-> s]
ReturnsArgs(args, s) == [kind |-> "dict", args |-> args, items |-> <<>>, session |-> s]
ReturnsList(items, s) == [kind |-> "list", args |-> NoArgs, items |-> items, session |-> s]

Item(tool, args) == [tool |-> tool, args |-> args]

\* The args of a lookup: the asset of crypto.price, the request of fx.rate,
\* the query of web.search (each call carries one of them).
LookupArgs(asset, fx, query) ==
    [path |-> NoPath, allow |-> FALSE, obj |-> TRUE,
     asset |-> asset, fx |-> fx, query |-> query]
AssetArgs(asset) == LookupArgs(asset, NoSession.fx, NoQuery)
FxArgs(fx) == LookupArgs("None", fx, NoQuery)
SearchArgs(query) == LookupArgs("None", NoSession.fx, query)

\* prepare_search_query stores the query as the last search (the prompts hold
\* no domain name, so the final query is the base query).
prepare_search_query(s, query) == [s EXCEPT !.search = query]

\* Lines 258-260: "atualizado hoje" is appended to a query that holds none
\* of the words atualizado, atualização, atualizacao, hoje.
with_hint(query) ==
    IF \E k \in 1..Len(query) :
          query[k] \in {"atualizado", "atualização", "atualizacao", "hoje"}
    THEN query
    ELSE query \o <<"atualizado", "hoje">>

\* handle_correction: the calls that repeat what the session remembers.
handle_correction(prompt, s) ==
    LET items == (IF s.asset # "None"
                  THEN <<Item("crypto.price", AssetArgs(s.asset))>> ELSE <<>>)
                    \o (IF s.fx # NoSession.fx
                        THEN <<Item("fx.rate", FxArgs(s.fx))>> ELSE <<>>)
                    \o (IF s.search # NoQuery
                        THEN <<Item("web.search", SearchArgs(with_hint(s.search)))>>
                        ELSE <<>>)
    IN IF ~prompt.tokens \/ items = <<>> THEN ReturnsNone(s)
       ELSE ReturnsList(items, IF s.search # NoQuery
                               THEN prepare_search_query(s, with_hint(s.search))
                               ELSE s)

\* rule["handler"](p, m) for the handler named h.
handler(h, prompt, s) ==
    IF h \in {"handle_time_bulk", "handle_geo_countries"}
    THEN IF prompt.regions THEN ReturnsArgs(NoArgs, s) ELSE ReturnsNone(s)
    ELSE IF h = "handle_fx_convert"
    THEN LET query == <<"cotação", prompt.fx.base, prompt.fx.target>> IN
         ReturnsList(<<Item("fx.rate", FxArgs(prompt.fx)),
                       Item("web.search", SearchArgs(query))>>,
                     prepare_search_query([s EXCEPT !.fx = prompt.fx], query))
    ELSE IF h = "handle_price_search"
    THEN LET query == <<"preço", "atual", prompt.asset>> IN
         ReturnsList(<<Item("crypto.price", AssetArgs(prompt.asset)),
                       Item("web.search", SearchArgs(query))>>,
                     prepare_search_query([s EXCEPT !.asset = prompt.asset], query))
    ELSE IF h = "handle_correction" THEN handle_correction(prompt, s)
    ELSE IF h = "handle_web_search"
    THEN LET query == IF prompt.today THEN <<"notícias", "hoje">>
                      ELSE <<"notícias">>
         IN ReturnsArgs(SearchArgs(query), prepare_search_query(s, query))
    ELSE IF h = "handle_fs_path" THEN ReturnsArgs(Args(prompt.path, FALSE), s)
    ELSE ReturnsArgs(NoArgs, s)

\* The pattern, keywords, any_keywords and not_keywords tests of rule i.
rule_matches_any(i, prompt) == TRUE
rule_matches(i, prompt) == i \in prompt.match

\* The calls a handler result stands for (lines 347-358): the items of a
\* list, each under its own tool name or the rule's, or one call of the
\* rule's tool.
calls_of(rule, a) ==
    IF a.kind = "list"
    THEN [j \in 1..Len(a.items) |->
            Block(IF a.items[j].tool # "" THEN a.items[j].tool ELSE rule.tool,
                  a.items[j].args)]
    ELSE <<Block(rule.tool, a.args)>>

\* _heuristic_tool_calls / HeuristicProcessor.find_tool_calls from rule i on:
\* the calls of the first rule that matches and whose handler returns a
\* result, the rule, the handlers invoked on the way, the session state left.
RECURSIVE find_tool_calls(_, _, _, _)
find_tool_calls(i, prompt, s, invoked) ==
    IF i > Len(heuristic_rules)
    THEN [calls |-> <<>>, rule |-> 0, invoked |-> invoked, session |-> s]
    ELSE IF ~rule_matches(i, prompt)
    THEN find_tool_calls(i + 1, prompt, s, invoked)
    ELSE LET rule == heuristic_rules[i]
             a == handler(rule.handler, prompt, s)
         IN IF a.kind = "None" \/ (a.kind = "list" /\ a.items = <<>>)
            THEN find_tool_calls(i + 1, prompt, a.session, Append(invoked, i))
            ELSE [calls |-> calls_of(rule, a), rule |-> i,
                  invoked |-> Append(invoked, i), session |-> a.session]

\* The turns _run_heuristic_shortcuts appends besides tool calls and results.
SummaryTurn(ok) ==
    Turn("user", IF ok THEN "summary" ELSE "failure", TextOnly, NoRes)
FinalTurn(tool) == Turn("assistant", "final", HeuristicAnswer(tool), NoRes)
SourcesTurn == Turn("user", "sources", TextOnly, NoRes)
GuidanceTurn == Turn("user", "guidance", TextOnly, NoRes)

\* The tools whose ok result is turned into the answer: those of the first
\* set return it, those of the second append it as an assistant turn first.
ReturnsAnswer == {"sys.time", "help.tools", "fs.list"}
AppendsAnswer == {"geo.countries", "geo.continents", "sys.time.bulk"}

\* How a tool invocation ended.
outcome(r) == IF r.raised THEN "raised" ELSE IF r.ok THEN "ok" ELSE "failed"

\* Agent.run up to line 622: add_user(prompt) and the selection of the calls.
ShortcutStart ==
    /\ engine.pc = "idle"
    /\ \E prompt \in HeurPrompts :
         LET f == find_tool_calls(1, prompt, engine.session, <<>>) IN
         engine' = [pc |-> IF f.calls = <<>> THEN "returned" ELSE "calls",
                    before |-> engine.session, session |-> f.session,
                    prompt |-> prompt,
                    rule |-> f.rule, invoked |-> f.invoked, calls |-> f.calls,
                    i |-> 1, turns |-> <<UserTurn>>, dispatched |-> <<>>,
                    results |-> <<>>,
                    answer |-> IF f.calls = <<>> THEN "None" ELSE "pending"]
    /\ UNCHANGED <<cfgvars, sb, disp, stream, gate, fetch, agentvars>>

\* The end of one iteration of `for c in forced_calls`: the next call, or
\* `return "continue"` after the last one.
NextCall_return(e) == [e EXCEPT !.pc = "returned", !.answer = "continue"]
NextCall(e) ==
    IF e.i = Len(e.calls)
    THEN [e EXCEPT !.pc = "returned", !.answer = "continue"]
    ELSE [e EXCEPT !.i = e.i + 1]

\* What an exception inside the try leaves: `except Exception: pass`.
swallow(e, c) == [e EXCEPT !.turns = Append(e.turns, AssistantTurn(c))]

\* One iteration of the loop of _run_heuristic_shortcuts (lines 393-612).
ShortcutCall ==
    /\ engine.pc = "calls"
    /\ LET c == engine.calls[engine.i] IN
       \E r \in call_tool(c.tool, c.args) : \E urls \in BOOLEAN :
       \E r2 \in call_tool("web.get_many", NoArgs) :
          LET e0 == [engine EXCEPT !.dispatched = Append(engine.dispatched, c),
                                   !.results = Append(engine.results, outcome(r))]
              t1 == engine.turns \o <<AssistantTurn(c), format_tool_result(r)>>
              e1 == [e0 EXCEPT !.turns = t1]
          IN
          engine' =
             IF r.raised THEN NextCall(swallow(e0, c))
             ELSE IF c.tool \in ReturnsAnswer /\ r.ok
             THEN [e1 EXCEPT !.pc = "returned", !.answer = "final"]
             ELSE IF c.tool \in AppendsAnswer /\ r.ok
             THEN [e1 EXCEPT !.pc = "returned", !.answer = "final",
                             !.turns = Append(t1, FinalTurn(c.tool))]
             ELSE IF c.tool = "web.search" /\ r.ok
             THEN IF ~urls
                  THEN [e1 EXCEPT !.pc = "returned", !.answer = "final",
                                  !.turns = Append(t1, FinalTurn(c.tool))]
                  ELSE LET c2 == Block("web.get_many", NoArgs)
                       IN [e1 EXCEPT
                             !.pc = "returned", !.answer = "continue",
                             !.dispatched = Append(e1.dispatched, c2),
                             !.results = Append(e1.results, outcome(r2)),
                             !.turns = t1 \o <<AssistantTurn(c2),
                                               format_tool_result(r2),
                                               SourcesTurn, GuidanceTurn>>]
             ELSE IF c.tool \in RemoteJsonTools
             THEN NextCall([e1 EXCEPT
                              !.turns = Append(t1, SummaryTurn(r.ok)),
                              !.session = IF ~r.ok THEN e1.session
                                          ELSE IF c.tool = "crypto.price"
                                          THEN [e1.session EXCEPT !.asset = c.args.asset]
                                          ELSE [e1.session EXCEPT !.fx = c.args.fx]])
             ELSE NextCall(e1)
    /\ UNCHANGED <<cfgvars, sb, disp, stream, gate, fetch, agentvars>>

\* The run is over (the answer was returned, or the loop that followed the
\* engine has ended); the agent keeps its session state for the next run.
ShortcutDone ==
    /\ engine.pc = "returned"
    /\ engine' = [EngineFresh EXCEPT !.before = engine.session,
                                     !.session = engine.session]
    /\ UNCHANGED <<cfgvars, sb, disp, stream, gate, fetch, agentvars>>

ShortcutNext == ShortcutStart \/ ShortcutCall \/ ShortcutDone

SpecShortcuts == Init /\ [][ShortcutNext]_vars

\* ------------------------------------------- the confirmation handshake
\* Lines 698-734 of Agent.run for one tool call of the model: the call, the
\* confirm_required result, the test of the approved paths, the question and
\* the re-invocation with the override.

\* The variables of the loop besides self._approved_paths.
loopvars == <<pc, messages, elided, expecting_tools, tool_success, retries,
              round, model_response, tool_call, result, dispatched, asks, ev,
              requests, validSeen, ret, reply, saved, runs>>

\* The tool calls of the model that go through the handshake.
GateCalls ==
    {Block("fs.read", Args(POutA, FALSE)), Block("fs.list", Args(POutA, FALSE)),
     Block("fs.write", Args(POutA, FALSE)), Block("fs.write", Args(POutB, FALSE)),
     Block("fs.write", Args(PIn, FALSE)), Block("fs.write", Args(PDenied, FALSE)),
     Block("fs.append", Args(POutA, FALSE)), Block("fs.mkdir", Args(POutB, FALSE)),
     Block("edit.replace", Args(PIn, FALSE)), Block("edit.replace", Args(POutA, FALSE)),
     Block("fs.copy", CopyArgs(POutA, POutB)), Block("fs.copy", CopyArgs(PIn, POutB)),
     Block("fs.copy", CopyArgs(POutA, PIn))}

\* The "reason" of the confirm_required response to call c: the message of
\* the resolver that refused (the read check comes first).
reason(c) ==
    IF /\ c.tool \in {"fs.read", "fs.list", "fs.copy"}
       /\ _resolve_readable_path(c.args.path, c.args.allow).raised
    THEN ErrOutsideRead
    ELSE ErrConfirmWrite

\* result = call_tool(name, args) and, for a confirm_required result whose
\* path is approved, the re-invocation; otherwise the loop stops at input().
GateCall ==
    /\ gate.pc = "idle"
    /\ \E c \in GateCalls : \E r1 \in call_tool(c.tool, c.args) :
         LET first == [tool |-> c.tool, args |-> c.args]
             again == [tool |-> c.tool, args |-> rerun_args(c.args)]
             g == [gate EXCEPT !.call = c, !.asks = 0, !.dispatched = <<first>>,
                               !.result = r1, !.reason = ""]
         IN IF r1.raised THEN gate' = [g EXCEPT !.ev = "exception"]
            ELSE IF ~r1.confirm_required THEN gate' = [g EXCEPT !.ev = "result"]
            ELSE IF is_path_approved(r1.path)
            THEN \E x2 \in call_tool(c.tool, rerun_args(c.args)) :
                    gate' = [g EXCEPT !.ev = "rerun", !.result = caught(x2),
                                      !.dispatched = <<first, again>>,
                                      !.reason = reason(c)]
            ELSE gate' = [g EXCEPT !.ev = "confirm_required", !.pc = "confirm",
                                   !.reason = reason(c)]
    /\ approved' = approved
    /\ UNCHANGED <<cfgvars, sb, disp, stream, engine, fetch, loopvars>>

\* The caller answers the question (lines 720-734).
GateAnswer ==
    /\ gate.pc = "confirm"
    /\ \E resp \in {"s", "n", ""} :
         IF approves(resp)
         THEN \E is_dir \in BOOLEAN :
              \E x2 \in call_tool(gate.call.tool, rerun_args(gate.call.args)) :
                 /\ approved' = remember_approval(approved, gate.result.path, is_dir)
                 /\ gate' = [gate EXCEPT
                       !.pc = "idle", !.ev = "approved", !.asks = 1,
                       !.result = caught(x2),
                       !.dispatched = Append(gate.dispatched,
                           [tool |-> gate.call.tool,
                            args |-> rerun_args(gate.call.args)]),
                       !.by = IF gate.reason = ErrConfirmWrite
                              THEN remember_approval(gate.by, gate.result.path, is_dir)
                              ELSE gate.by]
         ELSE /\ approved' = approved
              /\ gate' = [gate EXCEPT !.pc = "idle", !.ev = "denied", !.asks = 1,
                                      !.result = user_denied]
    /\ UNCHANGED <<cfgvars, sb, disp, stream, engine, fetch, loopvars>>

GateNext == GateCall \/ GateAnswer

SpecApprovals == Init /\ [][GateNext]_vars

\* ------------------------------------------------------------ web.get_many
\* One call of tool_web_get_many: the futures of the pool are numbered by the
\* position of their URL in the request; fetch.started of them have been taken
\* by a worker (the pool starts them in submission order), fetch.done have
\* finished, fetch.failed of those with an error of web.get, and fetch.pages is
\* the list the calling thread builds in its as_completed loop.

MaxUrls == 3        \* URLs of one request

Urls == {"u1", "u2"}

DefaultWorkers == 5

\* urls = args.get("urls"); max_workers = min(len(urls), int(...) or 5);
\* every URL is submitted on entering the with block.
GetMany ==
    /\ fetch.pc = "idle"
    /\ \E n \in 0..MaxUrls : \E urls \in [1..n -> Urls] :
       \E w \in {0, 1, 2} :
          LET asked == IF w = 0 THEN DefaultWorkers ELSE w
              max_workers == IF Len(urls) < asked THEN Len(urls) ELSE asked
          IN fetch' = IF urls = <<>>
                      THEN [FetchFresh EXCEPT !.pc = "returned"]
                      ELSE [FetchFresh EXCEPT !.pc = "running", !.urls = urls,
                                              !.max_workers = max_workers]
    /\ UNCHANGED <<cfgvars, sb, disp, stream, engine, gate, agentvars>>

\* A free worker of the pool takes the next submitted future.
WorkerTake ==
    /\ fetch.pc = "running"
    /\ fetch.started < Len(fetch.urls)
    /\ fetch.started - Cardinality(fetch.done) < fetch.max_workers
    /\ fetch' = [fetch EXCEPT !.started = @ + 1]
    /\ UNCHANGED <<cfgvars, sb, disp, stream, engine, gate, agentvars>>

\* fetch_url returns in a worker: the page, or the error result of web.get.
WorkerDone ==
    /\ fetch.pc = "running"
    /\ \E i \in (1..fetch.started) \ fetch.done : \E good \in BOOLEAN :
          fetch' = [fetch EXCEPT !.done = @ \cup {i},
                                 !.failed = IF good THEN @ ELSE @ \cup {i}]
    /\ UNCHANGED <<cfgvars, sb, disp, stream, engine, gate, agentvars>>

\* One iteration of "for future in as_completed(future_to_url)": a finished
\* future not yet yielded is yielded, and its result, with its URL, is appended.
Collect ==
    /\ fetch.pc = "running"
    /\ \E i \in fetch.done :
          /\ \A k \in 1..Len(fetch.pages) : fetch.pages[k].future # i
          /\ fetch' = [fetch EXCEPT !.pages = Append(@,
                          [future |-> i, url |-> fetch.urls[i],
                           ok |-> i \notin fetch.failed])]
    /\ UNCHANGED <<cfgvars, sb, disp, stream, engine, gate, agentvars>>

\* as_completed is exhausted, the with block shuts the pool down, and the
\* function returns {"ok": True, "pages": results}.
FetchReturn ==
    /\ fetch.pc = "running"
    /\ Len(fetch.pages) = Len(fetch.urls)
    /\ fetch' = [fetch EXCEPT !.pc = "returned", !.ok = TRUE]
    /\ UNCHANGED <<cfgvars, sb, disp, stream, engine, gate, agentvars>>

FetchNext == GetMany \/ WorkerTake \/ WorkerDone \/ Collect \/ FetchReturn

SpecFetch == Init /\ [][FetchNext]_vars

\* ==================================================================== claims

\* The path lies under a denylist entry / under a directory of the set.
Denied(p) == \E d \in ASSISTANT_DENYLIST : _is_under(p, d)
Covered(raw_path) ==
    /\ raw_path # NoPath
    /\ \E a \in approved : _is_under(resolve(cwd, raw_path), a)

\* C1: a run makes at most 12 inference requests (no request is pending once
\* 12 have been made) and every run that has begun returns: the agent is
\* idle again and again, which is (pc # "idle") ~> (pc = "idle").
C1_AtMostTwelveRequests ==
    /\ [](requests <= 12 /\ (pc = "model" => requests < 12))
    /\ []<>(pc = "idle")

C1_Witness == pc = "idle" /\ ret = "fallback" /\ requests = 12

\* C2: with a tool-expected prompt and a model that never emits a valid tool
\* call, a run makes at most 3 inference requests.
C2_ThreeRequestsWithoutValidCall ==
    (runs > 0 /\ expecting_tools /\ ~validSeen) => requests <= 3

\* C3: the caller denies the confirmation: the tool was dispatched exactly
\* once, without the override, the caller was asked once, and the turn
\* appended is the tool result {ok: false, error: "user_denied"} and nothing else.
C3_DenialDispatchesOnce ==
    ev = "denied" =>
       /\ asks = 1
       /\ Len(dispatched) = 1
       /\ ~dispatched[1].args.allow
       /\ Last(messages) =
            Turn("user", "tool_result", TextOnly,
                 ToolResult(FALSE, FALSE, "user_denied", "", NoPath))
       /\ messages[Len(messages) - 1].role = "assistant"

C3_Witness ==
    /\ ev = "denied"
    /\ dispatched # <<>>
    /\ dispatched[1].tool = "fs.write"
    /\ ~Covered(dispatched[1].args.path)

\* C4: the caller approves the confirmation: the caller was asked once, the
\* tool was invoked a second time, once, with the same args plus the override,
\* and the tool result appended is the result of that second invocation.
C4_ApprovalReinvokesOnce ==
    ev = "approved" =>
       /\ asks = 1
       /\ Len(dispatched) = 2
       /\ ~dispatched[1].args.allow
       /\ dispatched[2].tool = dispatched[1].tool
       /\ dispatched[2].args = [dispatched[1].args EXCEPT !.allow = TRUE]
       /\ Last(messages).kind = "tool_result"
       /\ Last(messages).res \in call_tool(dispatched[2].tool, dispatched[2].args)
       /\ ~Last(messages).res.confirm_required

C4_Witness ==
    /\ ev = "approved"
    /\ Len(dispatched) = 2
    /\ Last(messages).res.ok
    /\ Last(messages).res.action = "fs.write"

C6_ApprovedOnlyGrowsOnYes ==
    [][/\ approved \subseteq approved'
       /\ approved' # approved => (pc = "confirm" /\ ev' = "approved")]_vars

C6_Witness == Cardinality(approved) = 2

\* C7: a path under a denylist entry is refused with the denied error by
\* resolve-readable, resolve-writable and the tools built on them, whatever
\* the flags, the read-only directories and the root, and never as a
\* confirmation request.
C7_DenylistAlwaysWins ==
    (sb.op # "none" /\ Denied(sb.p)) =>
       /\ ~sb.ok
       /\ sb.msg = "path denied by admin denylist"
       /\ ~sb.confirm

C7_Witness ==
    /\ sb.op = "resolve_readable"
    /\ Denied(sb.p)
    /\ _is_under(sb.p, ASSISTANT_ROOT)
    /\ sb.allow /\ ASSISTANT_GLOBAL_READ /\ ASSISTANT_GLOBAL_WRITE
    /\ sb.raised

\* C8: a path under the root and under no denylist entry is approved by
\* resolve-readable and resolve-writable, whatever the flags and the
\* read-only directories.
C8_UnderRootApproved ==
    (/\ sb.op \in {"resolve_readable", "resolve_write"}
     /\ _is_under(sb.p, ASSISTANT_ROOT)
     /\ ~Denied(sb.p)) => (sb.ok /\ ~sb.raised)

C8_Witness ==
    /\ sb.op = "resolve_write"
    /\ sb.p # ASSISTANT_ROOT
    /\ _is_under(sb.p, ASSISTANT_ROOT)
    /\ ~Denied(sb.p)
    /\ ~sb.allow /\ ~ASSISTANT_GLOBAL_WRITE /\ ~ASSISTANT_GLOBAL_READ
    /\ ASSISTANT_DENYLIST # {}
    /\ sb.ok

\* C9: outside the root and the denylist, resolve-writable approves exactly
\* when global-write or allow_outside_root is set; otherwise it fails with the
\* confirmation-required error, which fs.write and fs.append return as a
\* confirm_required result and not as an ordinary error.
C9_WriteOutsideRoot ==
    (/\ sb.op \in {"resolve_write", "fs.write", "fs.append"}
     /\ ~_is_under(sb.p, ASSISTANT_ROOT)
     /\ ~Denied(sb.p)) =>
       /\ sb.ok <=> (ASSISTANT_GLOBAL_WRITE \/ sb.allow)
       /\ ~sb.ok =>
            IF sb.op = "resolve_write"
            THEN sb.raised /\ sb.msg = "write outside ASSISTANT_ROOT (confirmation required)"
            ELSE sb.confirm /\ sb.msg = ""

C9_Witness ==
    /\ sb.op = "fs.write"
    /\ ~_is_under(sb.p, ASSISTANT_ROOT)
    /\ ~Denied(sb.p)
    /\ ASSISTANT_GLOBAL_READ
    /\ \E d \in ASSISTANT_READONLY_DIRS : _is_under(sb.p, d)
    /\ sb.confirm

\* C10: a well-formed block naming a registered tool is extracted with
\* exactly its tool and args; a block naming a tool that is not registered is
\* treated as no tool call and nothing is dispatched for it.
C10_ExtractionAgainstRegistry ==
    (requests > 0 /\ model_response.block = "object" /\ model_response.tool # "") =>
       IF _normalize_tool_alias(model_response.tool) \in Registry
       THEN /\ ~tool_call.none
            /\ tool_call.tool = model_response.tool
            /\ tool_call.args = model_response.args
       ELSE dispatched = <<>> /\ ev \in {"nudge", "final"}

\* The ToolCall schema: "tool" a non-empty string, "args" an object, no other
\* top-level key.
SchemaValid(text) ==
    /\ text.block = "object"
    /\ text.tool # ""
    /\ text.args.obj
    /\ ~text.extra

\* C11: a <tool_call> block that is malformed or that violates the schema
\* (no tool name, args that are not an object, an extra top-level key) is
\* treated as no tool call: nothing is dispatched for it.
C11_OnlySchemaValidBlocksHonoured ==
    (requests > 0 /\ model_response.block # "none" /\ ~SchemaValid(model_response)) =>
       (dispatched = <<>> /\ ev \in {"nudge", "final"})

\* C12: the executor of a registered tool receives only the keys the tool's
\* parameter schema declares; every other key of the caller is dropped.
C12_OnlyDeclaredKeysReachExecutor ==
    (disp # NoDispatch /\ _normalize_tool_alias(disp.tool) \in Registry) =>
       disp.keys \subseteq params(_normalize_tool_alias(disp.tool))

\* C13: call_tool returns a ToolResult for every name and args, so no tool
\* call ends Agent.run with an exception.
C13_DispatchNeverRaises ==
    /\ ret # "exception"
    /\ ~result.raised

\* C14: when a heuristic call of the list-tools or current-time intent has
\* returned an ok result, the run has returned the answer formatted from it
\* and has made no inference request.
C14_ShortcutMakesNoRequest ==
    /\ (/\ runs > 0 /\ requests = 0
        /\ Last(messages).kind = "tool_result"
        /\ Last(messages).res.ok
        /\ Last(messages).res.action \in {"help.tools", "sys.time"}) =>
          /\ pc = "idle"
          /\ ret = "shortcut"
          /\ reply = [TextOnly EXCEPT !.tool = Last(messages).res.action]
    /\ ret = "shortcut" => (pc = "idle" /\ requests = 0)

C14_Witness ==
    /\ ret = "shortcut"
    /\ runs = 2
    /\ requests = 0
    /\ Last(messages).res.action = "sys.time"

\* C15: a run that has returned (heuristic answer, final model answer,
\* exhaustion of the rounds) has appended the conversation to the history.
C15_HistorySavedBeforeReturn ==
    (pc = "idle" /\ ret \in {"shortcut", "final", "fallback"}) => saved

\* C16: a run that used up the 12 rounds returns a non-empty message.
C16_FallbackMessageOnExhaustion ==
    (pc = "idle" /\ ret = "fallback") => (reply # EmptyString /\ reply.prose)

\* C17: the first turn is the system turn, and a step only appends turns:
\* the turns kept from before the step are unchanged and in order (older
\* turns leave only through the window), and while nothing has been left out
\* the earlier sequence is a prefix of the later one.
AppendOnly ==
    /\ messages'[1] = messages[1]
    /\ \E kept \in 0..(Len(messages) - 1) :
          /\ kept <= Len(messages') - 1
          /\ \A i \in 1..kept :
                messages'[1 + i] = messages[Len(messages) - kept + i]
          /\ kept < Len(messages) - 1 => Len(messages') = MaxKeep + 1
    /\ ~elided' =>
          /\ Len(messages') >= Len(messages)
          /\ SubSeq(messages', 1, Len(messages)) = messages

C17_SystemFirstAppendOnly ==
    /\ [](messages[1] = Turn("system", "system", TextOnly, NoRes))
    /\ [][AppendOnly]_vars

C17_Witness ==
    /\ ~elided
    /\ runs = 2
    /\ Len(messages) = 4
    /\ messages[3].role = "assistant"

\* The first response of a run holds no tool call, the prompt matched no
\* heuristic rule and is not tool-expected.
FirstAnswerPlain ==
    /\ requests = 1
    /\ tool_call.none \/ tool_call.empty
    /\ ~expecting_tools
    /\ ~tool_success

\* C18 as stated: then the run has returned after this one request, the
\* answer is the model text verbatim, and the two turns appended are the
\* prompt and the response.
C18_FirstAnswerVerbatim ==
    FirstAnswerPlain =>
       /\ pc = "idle" /\ ret = "final"
       /\ reply = model_response
       /\ Last(messages) = Turn("assistant", "response", model_response, NoRes)
       /\ messages[Len(messages) - 1] = Turn("user", "prompt", TextOnly, NoRes)

\* C18 amended: the answer is the model text with its <tool_call> blocks and
\* its leading and trailing whitespace removed (the text itself when it has
\* neither); the history holds the response as the model gave it.
C18_FirstAnswerStripped ==
    FirstAnswerPlain =>
       /\ pc = "idle" /\ ret = "final"
       /\ reply.block = "none" /\ ~reply.pad /\ reply.prose = model_response.prose
       /\ (model_response.block = "none" /\ ~model_response.pad) => reply = model_response
       /\ Last(messages) = Turn("assistant", "response", model_response, NoRes)
       /\ messages[Len(messages) - 1] = Turn("user", "prompt", TextOnly, NoRes)
       /\ runs = 1 => Len(messages) = 3

C18_Witness ==
    /\ FirstAnswerPlain
    /\ model_response.pad
    /\ reply = TextOnly
    /\ runs = 2

\* C19: a valid tool call whose result is ok and asks for no confirmation:
\* call_tool was called once, with the tool and the args of the block, and
\* the result is the last turn, a user turn, right after the assistant turn
\* of the call, with no inference request made since.
C19_OkToolCallOnceThenResult ==
    (IsValidToolCall(model_response) /\ ev = "result" /\ result.ok) =>
       /\ Len(dispatched) = 1
       /\ dispatched[1] = [tool |-> model_response.tool, args |-> model_response.args]
       /\ asks = 0
       /\ Last(messages) = Turn("user", "tool_result", TextOnly, result)
       /\ messages[Len(messages) - 1] = Turn("assistant", "response", model_response, NoRes)
       /\ requests = round

C19_Witness ==
    /\ ev = "result"
    /\ result.ok
    /\ result.action = "fs.write"
    /\ model_response = Block("fs.write", Args(PIn, FALSE))
    /\ pc = "model"

\* C20: in a streamed run the generator suspended at a confirm_required
\* event goes on (invokes a tool, emits an event, returns) only by being
\* resumed with one decision of the caller, and from every other event it is
\* resumed with no value.
C20_DecisionOnlyAfterConfirmRequired ==
    [][stream'.g # stream.g =>
          IF stream.g.pos = "confirm_required"
          THEN stream'.inj \in {"approved", "denied"}
          ELSE stream'.inj = "None"]_vars

C20_Witness ==
    /\ stream.from = "confirm_required"
    /\ stream.inj = "approved"
    /\ stream.g.pos = "tool_result"
    /\ stream.g.invoked = 4
    /\ stream.g.round = 2

\* C21: every event the generator of a streamed run emits is delivered to
\* the client, once and in the order of emission: the step that emits an
\* event sends that event, the one emitted right after a decision was
\* injected included.
C21_EveryEventDelivered ==
    [][stream'.g.emitted # stream.g.emitted =>
          /\ stream'.delivered = stream.delivered + 1
          /\ stream'.event = stream'.g.pos]_vars

\* A step in which a tool invocation of the model loop ended in an ordinary
\* failure (not ok, not a denial of the caller) that was fed back.
OrdinaryFailureStep ==
    /\ requests' # requests \/ asks' # asks
    /\ ev' \in {"result", "rerun", "approved"}
    /\ ~result'.ok
    /\ error_code(result') # "user_denied"

\* C22: after an ordinary tool failure the model is asked again only while
\* fewer than 2 retries were used before it, so a tool that always fails
\* under a model that always calls it again is invoked at most 3 times in
\* one run.
C22_FailureRetriedOnlyWithinBudget ==
    [][(OrdinaryFailureStep /\ retries >= MaxRetries) => pc' # "model"]_vars

\* C23: an args mapping with the allow-outside-root override reaches an
\* executor only as the second invocation of a round, made by the loop with
\* the args of the block after a confirm_required result that the caller
\* approved or the approved paths cover; the first invocation, made with the
\* args of the model, never carries it.
C23_OverrideOnlyFromLoop ==
    \A i \in 1..Len(dispatched) :
       (dispatched[i].args.obj /\ dispatched[i].args.allow) =>
          /\ i = 2
          /\ ev \in {"rerun", "approved"}
          /\ dispatched[2].args = rerun_args(model_response.args)
          /\ ~model_response.args.allow

\* C24: when the heuristic engine has returned "continue" (the run goes to
\* its first inference request with the tool success recorded, so nudging is
\* off), a heuristic tool call of this run has returned an ok result.
C24_ContinueOnlyAfterOkCall ==
    (ev = "continue" /\ pc = "model" /\ requests = 0 /\ tool_success) =>
       /\ Last(messages).kind = "tool_result"
       /\ Last(messages).res.ok

\* A step that appends a nudge turn.
NudgeAppended == messages' # messages /\ Last(messages').kind = "nudge"

\* C25: a nudge turn is appended only by a step whose response holds no tool
\* call, in tool-expected mode, with no tool success recorded and fewer than
\* 2 retries used; it is the one turn after the response and it uses one
\* retry.  Every ok tool result of a run records the tool success and the
\* record stays for the rest of the run, so no nudge follows a tool success.
C25_NudgeOnlyWithoutToolSuccess ==
    /\ [][NudgeAppended =>
             /\ requests' = requests + 1
             /\ tool_call'.none \/ tool_call'.empty
             /\ expecting_tools
             /\ ~tool_success
             /\ retries < 2
             /\ retries' = retries + 1
             /\ Last(messages') = NudgeTurn
             /\ messages'[Len(messages') - 1] = AssistantTurn(model_response')]_vars
    /\ [][(/\ pc' = "model"
           /\ Last(messages').kind = "tool_result"
           /\ Last(messages').res.ok) => tool_success']_vars
    /\ [][(tool_success /\ runs' = runs) => tool_success']_vars

C25_Witness ==
    /\ ev = "nudge"
    /\ retries = 2
    /\ validSeen
    /\ round = 2
    /\ ~tool_success

\* C26: the denial of a confirmation ends the tool-expected mode for the
\* rest of the run: no nudge turn is appended while it is off, and the next
\* response without a tool call is returned as the final answer.
C26_NoNudgeAfterDenial ==
    /\ [](ev = "denied" => ~expecting_tools)
    /\ [][(~expecting_tools /\ runs' = runs) => ~expecting_tools']_vars
    /\ [][~expecting_tools => ~NudgeAppended]_vars
    /\ [][(/\ ~expecting_tools
           /\ requests' = requests + 1
           /\ tool_call'.none \/ tool_call'.empty) =>
             /\ pc' = "idle" /\ ret' = "final" /\ ev' = "final"
             /\ reply' = _strip_internal(model_response')
             /\ Last(messages') = AssistantTurn(model_response')]_vars

C26_Witness ==
    /\ ev = "final"
    /\ result = user_denied
    /\ asks = 1
    /\ ~expecting_tools
    /\ ~tool_success
    /\ retries = 1
    /\ requests = 3

\* The rules have been evaluated for the prompt and no call was made yet.
Selected == engine.pc # "idle" /\ engine.dispatched = <<>>

\* Rule i passes its tests on the prompt and its handler, run on the session
\* state the run began with, returns a result.
Wins(i) ==
    LET a == handler(heuristic_rules[i].handler, engine.prompt, engine.before)
    IN /\ i \in engine.prompt.match
       /\ a.kind = "dict" \/ (a.kind = "list" /\ a.items # <<>>)

\* C27: the rules are evaluated in the order of declaration: the rule that
\* gives the calls is the first one that matches and whose handler returns a
\* result; the handlers invoked are those of the matching rules up to it, in
\* order, and none after it; the session state is what the handler of that
\* rule alone makes of it (unchanged when no rule gives a result), and the
\* evaluation appends nothing to the conversation.
C27_FirstMatchingRuleWins ==
    Selected =>
       LET W == {i \in RuleIds : Wins(i)}
           n == Len(engine.invoked)
       IN /\ engine.rule = IF W = {} THEN 0
                           ELSE CHOOSE i \in W : \A j \in W : i <= j
          /\ \A k \in 1..n : engine.invoked[k] \in engine.prompt.match
          /\ \A k \in 1..(n - 1) : engine.invoked[k] < engine.invoked[k + 1]
          /\ \A i \in engine.prompt.match :
                (\E k \in 1..n : engine.invoked[k] = i)
                   <=> (engine.rule = 0 \/ i <= engine.rule)
          /\ engine.turns = <<UserTurn>>
          /\ IF engine.rule = 0
             THEN /\ engine.calls = <<>>
                  /\ engine.session = engine.before
                  /\ engine.answer = "None"
             ELSE LET r == heuristic_rules[engine.rule]
                      a == handler(r.handler, engine.prompt, engine.before)
                  IN /\ engine.calls = calls_of(r, a)
                     /\ engine.calls # <<>>
                     /\ engine.session = a.session

C27_Witness ==
    /\ Selected
    /\ engine.prompt.match = {7, 8}
    /\ engine.prompt.tokens
    /\ engine.before = NoSession
    /\ engine.invoked = <<7, 8>>
    /\ engine.rule = 8
    /\ engine.calls = <<Block("web.search", SearchArgs(<<"notícias">>))>>
    /\ engine.session = [NoSession EXCEPT !.search = <<"notícias">>]

\* A tool invocation of this run of the engine raised.
SomeCallRaised == \E k \in 1..Len(engine.results) : engine.results[k] = "raised"

\* The step of a heuristic call that raised: the exception is swallowed, and
\* the engine goes on to the next call of the list or, after the last call,
\* returns "continue".
RaisedCallGoesOn ==
    (/\ engine.pc = "calls"
     /\ engine'.pc # "idle"
     /\ engine'.results = Append(engine.results, "raised")) =>
       /\ engine'.answer # "exception"
       /\ IF engine.i < Len(engine.calls)
          THEN engine'.pc = "calls" /\ engine'.i = engine.i + 1
          ELSE engine'.pc = "returned" /\ engine'.answer = "continue"

FailureDescribed(k) ==
    \E t \in 1..(Len(engine.turns) - 1) :
       /\ engine.turns[t] = AssistantTurn(engine.dispatched[k])
       /\ engine.turns[t + 1].kind = "tool_result"
       /\ ~engine.turns[t + 1].res.ok

\* C29: when the engine has returned (to the first inference request or to
\* the caller), every tool invocation of it that failed, by a result that is
\* not ok or by an exception, has a turn describing the failure.
C29_EveryFailureHasATurn ==
    engine.pc = "returned" =>
       \A k \in 1..Len(engine.results) :
          engine.results[k] # "ok" => FailureDescribed(k)

\* The step that dispatches a call of the list.
DispatchStep == engine.pc = "calls" /\ engine'.pc # "idle"

\* C30: the calls of the winning rule are dispatched in the order of the
\* list, and when a call is dispatched the tool-result turn of the call
\* before it is already in the conversation.
C30_CallsInListOrder ==
    [][DispatchStep =>
          /\ Len(engine.dispatched) = engine.i - 1
          /\ engine'.dispatched[engine.i] = engine.calls[engine.i]
          /\ engine.i > 1 =>
                \E t \in 1..(Len(engine.turns) - 1) :
                   /\ engine.turns[t] = AssistantTurn(engine.calls[engine.i - 1])
                   /\ engine.turns[t + 1].kind = "tool_result"]_vars

\* The tools of the model that read the file or directory a caller names.
PathReaders ==
    {"fs.read", "fs.list", "fs.copy", "edit.replace", "spreadsheet.query"}

\* C31: a tool that reads a caller-supplied path never answers a path outside
\* the allowed read locations with the ordinary error of the resolver: it
\* asks for a confirmation, and called with the override it passes the read
\* check (so the error is returned with the override no more than without).
C31_OutsideReadAsksConfirmation ==
    (disp # NoDispatch /\ disp.tool \in PathReaders) =>
       disp.msg # "path outside allowed read locations"

\* The resolved paths call c reads and writes when its tool runs.
Reads(c) ==
    IF c.tool \in {"fs.read", "fs.list", "fs.copy", "edit.replace"}
    THEN {resolve(ASSISTANT_ROOT, c.args.path)} ELSE {}
Writes(c) ==
    IF c.tool \in {"fs.write", "fs.append", "fs.mkdir", "edit.replace"}
    THEN {resolve(ASSISTANT_ROOT, c.args.path)}
    ELSE IF c.tool = "fs.copy" THEN {resolve(ASSISTANT_ROOT, c.args.dest)}
    ELSE {}

\* The tool of the call ran without a question to the caller.
RanUnasked == gate.ev \in {"result", "rerun"} /\ gate.result.ok

\* C32: a write-class call that ran without a question wrote outside the
\* root only under a directory the caller approved in answer to a question
\* about a write; an approval given to a read does not let a write through.
C32_WritesNeedWriteApproval ==
    RanUnasked =>
       \A p \in Writes(gate.call) :
          ~_is_under(p, ASSISTANT_ROOT) => \E d \in gate.by : _is_under(p, d)

\* C33: when the loop re-invoked a tool with the override without a question,
\* every path outside the root that the tool read or wrote, the destination
\* of fs.copy included, lies under an approved directory.
C33_OverrideStaysUnderApproved ==
    (gate.ev = "rerun" /\ gate.result.ok) =>
       \A p \in Reads(gate.call) \cup Writes(gate.call) :
          ~_is_under(p, ASSISTANT_ROOT) => \E a \in approved : _is_under(p, a)

\* The canonical <tool_call>{...}</tool_call> rendering of the call a response
\* holds: the block alone.
canonical(text) == [text EXCEPT !.prose = FALSE, !.pad = FALSE]

\* The latest response of the model in the conversation.
LastResponse(msgs) ==
    LET I == {i \in 1..Len(msgs) : msgs[i].kind = "response"}
    IN msgs[CHOOSE i \in I : \A j \in I : j <= i]

C35_PagesInRequestOrder ==
    (fetch.pc = "returned" /\ fetch.ok) =>
       /\ Len(fetch.pages) = Len(fetch.urls)
       /\ fetch.done = 1..Len(fetch.urls)
       /\ \A i \in 1..Len(fetch.urls) :
             Cardinality({k \in 1..Len(fetch.pages) : fetch.pages[k].future = i}) = 1
       /\ \A k \in 1..Len(fetch.pages) : fetch.pages[k].url = fetch.urls[k]

\* The conversation new continues the conversation old: it is old with turns
\* appended (the oldest turns leaving the window of the model).
Continues(old, new) ==
    \E k \in 1..Len(new) :
       new = add(old, SubSeq(new, Len(new) - k + 1, Len(new)))

\* C36: when the next user message of a session is handled, every directory
\* approved before is still in ApprovedPathSet and the turns of the earlier
\* messages are still in Conversation State.
C36_SessionStateKept ==
    [][runs' = runs + 1 =>
          /\ approved \subseteq approved'
          /\ Continues(messages, messages')]_vars

\* The session remembers a price or currency lookup of an earlier run.
LookedUp(s) == s.asset # "None" \/ s.fx # NoSession.fx

\* C37: after a price or currency lookup in an earlier run, a prompt that
\* signals a wrong or stale answer (it passes the test of the correction rule
\* and of no other rule) re-dispatches the same lookups, crypto.price with the
\* remembered asset and fx.rate with the remembered request, followed by a
\* web.search whose query is the previous base query with the freshness hint
\* appended.
C37_CorrectionRepeatsLookups ==
    (/\ Selected
     /\ engine.prompt.match = {7}
     /\ LookedUp(engine.before)) =>
       LET s == engine.before IN
       engine.calls =
          (IF s.asset # "None"
           THEN <<Block("crypto.price", AssetArgs(s.asset))>> ELSE <<>>)
          \o (IF s.fx # NoSession.fx
              THEN <<Block("fx.rate", FxArgs(s.fx))>> ELSE <<>>)
          \o <<Block("web.search",
                     SearchArgs(s.search \o <<"atualizado", "hoje">>))>>

\* C38: when Agent.run has returned a non-empty answer, the last turn of the
\* conversation is an assistant turn whose content, internal markers
\* stripped, is the answer returned.
C38_AnswerIsLastTurn ==
    (pc = "idle" /\ runs > 0 /\ reply # EmptyString) =>
       /\ Last(messages).role = "assistant"
       /\ _strip_internal(Last(messages).text) = reply

\* A step of the loop that appends a nudge turn / that feeds back the failure
\* of a tool call (a result that is not ok and is not a denial).
NudgeStep == requests' = requests + 1 /\ ev' = "nudge"
ToolErrorStep ==
    /\ pc # "idle"
    /\ ev' \in {"result", "rerun", "approved"}
    /\ ~result'.ok
    /\ error_code(result') # "user_denied"

\* C39: the retry counter of a run stays between 0 and 2; it starts at 0, and
\* within the run it changes only by one, in a step that appends a nudge or in
\* a step that feeds back a tool error while fewer than 2 retries are used: the
\* nudges and the counted tool-error retries of a run share the budget of 2.
C39_SharedRetryBudget ==
    /\ [](retries \in 0..2)
    /\ [][runs' = runs + 1 => retries' = 0]_vars
    /\ [][runs' = runs =>
             retries' = IF NudgeStep \/ (ToolErrorStep /\ retries < 2)
                        THEN retries + 1 ELSE retries]_vars

\* A response without a tool call ends the run in tool-expected mode, with no
\* tool success: no nudge is left, a tool error of the run has used the budget.
C39_Witness ==
    /\ pc = "idle"
    /\ ev = "final"
    /\ expecting_tools
    /\ ~tool_success
    /\ retries = 2
    /\ requests = 3
    /\ \E i \in 1..Len(messages) : messages[i].kind = "error_feedback"

====
